---- MODULE Spec2Model ----
(***************************************************************************)
(* A model of BuildLatex (src/build_latex/__main__.py): the build pipeline *)
(* main -> convert_to_tex -> build_pdf, the process runner shell_command,  *)
(* the converter argument list and the annotation rewrite                  *)
(* process_metadata.                                                       *)
(*                                                                         *)
(* A Python string is a sequence of tokens.  A token is one character, or  *)
(* one whole literal of the program ("--verbose", ".tex", "\\label"); no   *)
(* literal is a concatenation of the characters used in paths and texts,   *)
(* so two strings are equal exactly when their token sequences are equal.  *)
(* An optional flag (default None) is a record [set, val].                 *)
(***************************************************************************)
EXTENDS Naturals, Sequences, FiniteSets

VARIABLES
    flags,      \* FLAGS: the configuration, mutated by main only
    flags0,     \* the parsed command line (FLAGS when main starts)
    pc,         \* position of the build in main / build_pdf
    idx,        \* index of the next part of the loop of main
    log,        \* external invocations and file rewrites, in order
    files,      \* the intermediate files written so far: path -> content
    cwd,        \* the process's current working directory
    last,       \* the last call of shell_command made on its own
    text,       \* content of the file process_metadata is called on alone
    subs        \* the matches METADATA_REGEX.sub replaced, in order

vars == <<flags, flags0, pc, idx, log, files, cwd, last, text, subs>>

----------------------------------------------------------------------------
(* Bounds of the model *)

\* longest list of --part flags
MaxParts == 2
\* calls of shell_command made on its own, one after another
MaxCalls == 2
\* segments a text handed to process_metadata is built from
MaxSegs == 4

----------------------------------------------------------------------------
(* Strings, optional values, paths *)

None == [set |-> FALSE, val |-> <<>>]

Some(v) == [set |-> TRUE, val |-> v]

\* Python truthiness of an optional string: None and "" are false
Truthy(o) == o.set /\ o.val # <<>>

Max(S) == CHOOSE x \in S : \A y \in S : y <= x

Min(S) == CHOOSE x \in S : \A y \in S : x <= y

\* p.rfind("/") + 1
LastSlash(p) == Max({0} \cup {i \in 1..Len(p) : p[i] = "/"})

\* os.path.basename (posixpath): p[p.rfind("/") + 1:]
basename(p) == SubSeq(p, LastSlash(p) + 1, Len(p))

\* head.rstrip("/")
RStripSlash(p) ==
    SubSeq(p, 1, Max({0} \cup {i \in 1..Len(p) : p[i] # "/"}))

\* os.path.dirname (posixpath): the head up to the last slash, its trailing
\* slashes removed unless it is made of slashes only
dirname(p) ==
    LET head == SubSeq(p, 1, LastSlash(p))
    IN  IF head # <<>> /\ (\E i \in 1..Len(head) : head[i] # "/")
        THEN RStripSlash(head)
        ELSE head

\* join_path = os.path.join, two arguments
join_path(a, b) ==
    IF b # <<>> /\ b[1] = "/" THEN b
    ELSE IF a = <<>> \/ a[Len(a)] = "/" THEN a \o b
    ELSE a \o <<"/">> \o b

ROOT_DIRECTORY == <<"/", "ROOT">>

THIRD_PARTY_DIRECTORY == join_path(ROOT_DIRECTORY, <<"third_party">>)

PANDOC == <<"pandoc">>

LATEX == <<"xelatex">>

BIBER == <<"biber">>

BIBTEX == <<"bibtex">>

----------------------------------------------------------------------------
(* shell_command *)


\* shell_command that never raises (subprocess.call in every branch)
ShellCommandNoRaise(c, throw, output, shell, cwdArg, exit) ==
    [cwd |-> c, how |-> "none"]

\* shell_command(cmd, throw, output, shell, cwd) called with the process in
\* directory c, the command exiting with status exit.  Gives the process's
\* directory when the call is over and how the call ended.
ShellCommand(c, throw, output, shell, cwdArg, exit) ==
    LET entered == IF cwdArg.set THEN cwdArg.val ELSE c
        back    == IF cwdArg.set THEN c ELSE entered
    IN  IF throw /\ output
        THEN IF exit # 0
             THEN [cwd |-> entered, how |-> "raised"]    \* check_output raises
             ELSE [cwd |-> entered, how |-> "output"]    \* return at line 70
        ELSE IF throw /\ ~shell /\ exit # 0
        THEN [cwd |-> entered, how |-> "raised"]          \* check_call raises
        ELSE [cwd |-> back, how |-> "none"]

----------------------------------------------------------------------------
(* process_metadata: METADATA_REGEX, REPLACEMENT and re.sub *)

CodeMetadata == "\\codeMetadata"

BeginShaded == "\\begin{Shaded}"

EndShaded == "\\end{Shaded}"

Letters ==
    {"a","b","c","d","e","f","g","h","i","j","k","l","m",
     "n","o","p","q","r","s","t","u","v","w","x","y","z",
     "A","B","C","D","E","F","G","H","I","J","K","L","M",
     "N","O","P","Q","R","S","T","U","V","W","X","Y","Z"}

Digits == {"0","1","2","3","4","5","6","7","8","9"}

\* [a-zA-Z0-9:]
LabelClass == Letters \cup Digits \cup {":"}

\* [\w\(\):\. ]
CaptionClass == Letters \cup Digits \cup {"_", "(", ")", ":", ".", " "}

\* [\s\n]
SpaceClass == {" ", "\t", "\n", "\r", "\f"}

\* The end of the longest run of tokens of class C that starts at i
\* (i - 1 when t[i] is not in C): a greedy C* from i.
RunEnd(t, i, C) ==
    Min({j \in (i - 1)..Max({Len(t), i - 1}) :
            j >= Len(t) \/ t[j + 1] \notin C})

At(t, i) == IF i \in 1..Len(t) THEN t[i] ELSE "<end>"

NoMatch == [ok |-> FALSE, start |-> 0, end |-> 0,
            label |-> <<>>, caption |-> <<>>, shaded |-> <<>>]

\* METADATA_REGEX matched at position i of t.  Each class excludes the token
\* that must follow its run, so the greedy run is the only candidate; the
\* lazy [\s\S]*? stops at the first \end{Shaded}.
MatchAt(t, i) ==
    LET l1 == i + 2
        l2 == RunEnd(t, l1, LabelClass)
        c1 == l2 + 3
        c2 == RunEnd(t, c1, CaptionClass)
        w1 == c2 + 2
        w2 == RunEnd(t, w1, SpaceClass)
        b  == w2 + 1
        es == {e \in (b + 1)..Len(t) : t[e] = EndShaded}
    IN  IF /\ At(t, i) = CodeMetadata
           /\ At(t, i + 1) = "["
           /\ l2 >= l1
           /\ At(t, l2 + 1) = "]"
           /\ At(t, l2 + 2) = "{"
           /\ c2 >= c1
           /\ At(t, c2 + 1) = "}"
           /\ w2 >= w1
           /\ At(t, b) = BeginShaded
           /\ es # {}
        THEN [ok |-> TRUE, start |-> i, end |-> Min(es),
              label |-> SubSeq(t, l1, l2),
              caption |-> SubSeq(t, c1, c2),
              shaded |-> SubSeq(t, b, Min(es))]
        ELSE NoMatch

Indent == <<"\n", " ", " ", " ", " ">>


\* REPLACEMENT % (match[1], match[3], match[2]): label and block swapped
ReplacementSwapped(m) ==
    Indent \o <<"\\begin{listing}">>
    \o Indent \o m.label \o <<"\\label", "{">> \o m.shaded \o <<"}">>
    \o Indent \o <<"\\caption", "{">> \o m.caption \o <<"}">>
    \o Indent \o <<"\\end{listing}">>
    \o Indent

\* REPLACEMENT % (match[3], match[1], match[2])
Replacement(m) ==
    Indent \o <<"\\begin{listing}">>
    \o Indent \o m.shaded \o <<"\\label", "{">> \o m.label \o <<"}">>
    \o Indent \o <<"\\caption", "{">> \o m.caption \o <<"}">>
    \o Indent \o <<"\\end{listing}">>
    \o Indent

\* METADATA_REGEX.sub(lambda ..., t) from position i on: the new content
\* and the matches replaced.  The pattern matches no empty string.
RECURSIVE Sub(_, _)
Sub(t, i) ==
    IF i > Len(t) THEN [content |-> <<>>, matches |-> <<>>]
    ELSE LET m == MatchAt(t, i)
         IN  IF m.ok
             THEN LET r == Sub(t, m.end + 1)
                  IN  [content |-> Replacement(m) \o r.content,
                       matches |-> <<m>> \o r.matches]
             ELSE LET r == Sub(t, i + 1)
                  IN  [content |-> <<t[i]>> \o r.content,
                       matches |-> r.matches]

\* process_metadata(filename) on the files fs: read, substitute, write back
ProcessMetadata(fs, filename) ==
    [fs EXCEPT ![filename] = Sub(fs[filename], 1).content]

----------------------------------------------------------------------------
(* convert_to_tex and call_pandoc *)

\* tex_filename of convert_to_tex
TexFilename(F, filename) ==
    IF Truthy(F.part_output)
    THEN F.part_output.val \o basename(filename) \o <<".tex">>
    ELSE filename \o <<".tex">>


\* pandoc_args with the user template substituted for the thesis block's
\* position: the template flag placed before the thesis typography
PandocArgsReordered(F) ==
    << <<"--verbose">> >>
    \o (IF F.standalone THEN << <<"--standalone">> >> ELSE <<>>)
    \o (IF F.bibtex
        THEN << <<"--biblatex">>, <<"--csl">>,
                join_path(THIRD_PARTY_DIRECTORY, <<"ieee.csl">>) >>
        ELSE <<>>)
    \o (IF F.template.set
        THEN << <<"--template">>, F.template.val >> ELSE <<>>)
    \o (IF F.thesis
        THEN << <<"-V">>, <<"geometry:margin=20mm">>,
                <<"-V">>, <<"mainfont:Times New Roman">>,
                <<"-V">>, <<"papersize:a4">>,
                <<"-V">>, <<"classoption:12pt">> >>
             \o (IF ~F.template.set
                 THEN << <<"--template">>,
                         join_path(ROOT_DIRECTORY, <<"thesis-template.tex">>) >>
                 ELSE <<>>)
        ELSE <<>>)
    \o (IF F.metadata.set
        THEN << <<"--metadata-file">>, F.metadata.val >> ELSE <<>>)
    \o (IF F.highlight
        THEN << <<"--syntax-definition">>,
                join_path(THIRD_PARTY_DIRECTORY, <<"typescript.xml">>),
                <<"--highlight=tango">> >>
        ELSE <<>>)
    \o (IF F.pretty
        THEN << <<"-V">>, <<"geometry:margin=2cm">>,
                <<"-V">>, <<"mainfont:Roboto">>,
                <<"-V">>, <<"papersize:a4">> >>
        ELSE <<>>)

\* pandoc_args of convert_to_tex; an argument is a string
PandocArgs(F) ==
    << <<"--verbose">> >>
    \o (IF F.standalone THEN << <<"--standalone">> >> ELSE <<>>)
    \o (IF F.bibtex
        THEN << <<"--biblatex">>, <<"--csl">>,
                join_path(THIRD_PARTY_DIRECTORY, <<"ieee.csl">>) >>
        ELSE <<>>)
    \o (IF F.thesis
        THEN << <<"-V">>, <<"geometry:margin=20mm">>,
                <<"-V">>, <<"mainfont:Times New Roman">>,
                <<"-V">>, <<"papersize:a4">>,
                <<"-V">>, <<"classoption:12pt">> >>
             \o (IF ~F.template.set
                 THEN << <<"--template">>,
                         join_path(ROOT_DIRECTORY, <<"thesis-template.tex">>) >>
                 ELSE <<>>)
        ELSE <<>>)
    \o (IF F.template.set
        THEN << <<"--template">>, F.template.val >> ELSE <<>>)
    \o (IF F.metadata.set
        THEN << <<"--metadata-file">>, F.metadata.val >> ELSE <<>>)
    \o (IF F.highlight
        THEN << <<"--syntax-definition">>,
                join_path(THIRD_PARTY_DIRECTORY, <<"typescript.xml">>),
                <<"--highlight=tango">> >>
        ELSE <<>>)
    \o (IF F.pretty
        THEN << <<"-V">>, <<"geometry:margin=2cm">>,
                <<"-V">>, <<"mainfont:Roboto">>,
                <<"-V">>, <<"papersize:a4">> >>
        ELSE <<>>)

\* pandoc_command of call_pandoc
PandocCommand(F, filename, output_filename, output_type, args) ==
    LET input_type == IF F.markdown_tex THEN <<"markdown">>
                      ELSE <<"markdown-raw_tex">>
    IN  <<PANDOC>> \o args
        \o << <<"-f">>, input_type, <<"-t">>, output_type,
              <<"-o">>, output_filename, filename >>

\* What the converter writes for a source document (the environment: the
\* sources whose base name is "a" hold an annotated code block).
AnnotatedDoc ==
    <<"x", CodeMetadata, "[", "f", ":", "1", "]", "{", "A", " ", "t", "}",
      "\n", BeginShaded, "\n", "c", "\n", EndShaded, "\n", "y">>

PlainDoc == <<"x", BeginShaded, "c", EndShaded>>

PandocOutput(md_filename) ==
    IF basename(md_filename) = <<"a", ".md">> THEN AnnotatedDoc ELSE PlainDoc

Exec(cmd, exit) == [kind |-> "exec", cmd |-> cmd, exit |-> exit]

Rewrite(path) == [kind |-> "rewrite", cmd |-> <<path>>, exit |-> 0]

Put(fs, path, content) ==
    [p \in DOMAIN fs \cup {path} |-> IF p = path THEN content ELSE fs[p]]

\* convert_to_tex(filename) with the converter exiting with status exit:
\* the log and the files afterwards, and whether the call raised.
ConvertToTex(F, filename, exit, c, lg, fs) ==
    LET tex_filename == TexFilename(F, filename)
        md_filename  == filename \o <<".md">>
        cmd == PandocCommand(F, md_filename, tex_filename, <<"latex">>,
                             PandocArgs(F))
        r   == ShellCommand(c, TRUE, FALSE, FALSE, None, exit)
        fs1 == IF exit = 0
               THEN Put(fs, tex_filename, PandocOutput(md_filename)) ELSE fs
    IN  IF r.how = "raised"
        THEN [raised |-> TRUE, cwd |-> r.cwd, files |-> fs1,
              log |-> Append(lg, Exec(cmd, exit))]
        ELSE IF F.highlight /\ tex_filename \notin DOMAIN fs1
        THEN [raised |-> TRUE, cwd |-> r.cwd, files |-> fs1,   \* open() raises
              log |-> Append(lg, Exec(cmd, exit))]
        ELSE IF F.highlight
        THEN [raised |-> FALSE, cwd |-> r.cwd,
              files |-> ProcessMetadata(fs1, tex_filename),
              log |-> lg \o <<Exec(cmd, exit), Rewrite(tex_filename)>>]
        ELSE [raised |-> FALSE, cwd |-> r.cwd, files |-> fs1,
              log |-> Append(lg, Exec(cmd, exit))]

----------------------------------------------------------------------------
(* build_pdf *)

\* latex_args of build_pdf
LatexArgs(F) ==
    (IF F.output_dir.set
     THEN << <<"-output-directory=">> \o F.output_dir.val >> ELSE <<>>)
    \o << <<"-interaction=nonstopmode">> >>

\* [LATEX, *latex_args, tex_filename]
LatexCommand(F, filename) ==
    <<LATEX>> \o LatexArgs(F) \o <<filename \o <<".tex">> >>


\* the bibliography processors the wrong way round
BibCommandSwapped(F, filename) ==
    IF F.biblatex THEN <<BIBER, filename>> ELSE <<BIBTEX, filename>>

\* [BIBTEX, filename] or [BIBER, filename]
BibCommand(F, filename) ==
    IF F.biblatex THEN <<BIBTEX, filename>> ELSE <<BIBER, filename>>

----------------------------------------------------------------------------
(* main: the configuration after the --simple shortcut *)


\* the --simple shortcut without the thesis exception
DeriveForcePretty(F) ==
    IF F.simple
    THEN [F EXCEPT !.output_dir = Some(dirname(F.filename)),
                   !.standalone = TRUE,
                   !.pretty = TRUE]
    ELSE F

Derive(F) ==
    IF F.simple
    THEN [F EXCEPT !.output_dir = Some(dirname(F.filename)),
                   !.standalone = TRUE,
                   !.pretty = IF ~F.thesis THEN TRUE ELSE F.pretty]
    ELSE F

----------------------------------------------------------------------------
(* The inputs *)

ExitCodes == {0, 1}

Filenames == {<<"m">>, <<"d", "/", "m">>}

PartNames == {<<"a">>, <<"m">>}

SeqsUpTo(S, n) == UNION {[1..k -> S] : k \in 0..n}

\* --part: None and the empty list both take the else branch of main
Parts == SeqsUpTo(PartNames, MaxParts)

Dirs == {<<"w">>, <<"o">>}

\* the command lines the build's steps are checked on: the flags that decide
\* which steps run and what the typeset step is given
BuildConfigs ==
    [pandoc: BOOLEAN, filename: Filenames, metadata: {None},
     template: {None}, part: Parts,
     part_output: {None, Some(<<"o">>), Some(<<"o", "/">>)},
     simple: BOOLEAN, standalone: {FALSE}, bibtex: BOOLEAN,
     biblatex: BOOLEAN, highlight: BOOLEAN,
     output_dir: {None, Some(<<"o">>)},
     pretty: {FALSE}, thesis: {FALSE}, markdown_tex: {TRUE}]

\* the command lines the configuration and the converter's command are
\* checked on: the flags that main derives and convert_to_tex reads
ArgConfigs ==
    [pandoc: BOOLEAN, filename: Filenames,
     metadata: {None, Some(<<"y">>)},
     template: {None, Some(<<"t">>)},
     part: SeqsUpTo({<<"d", "/", "a">>}, MaxParts - 1),
     part_output: {None, Some(<<>>), Some(<<"o">>), Some(<<"d", "/">>)},
     simple: BOOLEAN, standalone: BOOLEAN, bibtex: BOOLEAN,
     biblatex: {FALSE}, highlight: BOOLEAN,
     output_dir: {None, Some(<<"o">>)},
     pretty: BOOLEAN, thesis: BOOLEAN, markdown_tex: BOOLEAN]

\* the flag defaults of lines 27-51, with a file name
DefaultFlags ==
    [pandoc |-> TRUE, filename |-> <<"m">>, metadata |-> None,
     template |-> None, part |-> <<>>, part_output |-> None,
     simple |-> FALSE, standalone |-> FALSE, bibtex |-> FALSE,
     biblatex |-> FALSE, highlight |-> FALSE, output_dir |-> None,
     pretty |-> FALSE, thesis |-> FALSE, markdown_tex |-> TRUE]

NoFiles == [p \in {} |-> <<>>]

NoCall == [n |-> 0, throw |-> TRUE, output |-> FALSE, shell |-> FALSE,
           cwd |-> None, exit |-> 0, before |-> <<>>, how |-> "none"]

----------------------------------------------------------------------------
(* The build: main and build_pdf, one action per external step *)

InitOn(configs) ==
    /\ flags \in configs
    /\ flags0 = flags
    /\ pc = "main"
    /\ idx = 1
    /\ log = <<>>
    /\ files = NoFiles
    /\ cwd = <<"w">>
    /\ last = NoCall
    /\ text = <<>>
    /\ subs = <<>>

Init == InitOn(BuildConfigs)

InitArgs == InitOn(ArgConfigs)

\* main, lines 213-219
Simple ==
    /\ pc = "main"
    /\ flags' = Derive(flags)
    /\ pc' = "convert"
    /\ UNCHANGED <<flags0, idx, log, files, cwd, last, text, subs>>

\* main, lines 221-224: one turn of the loop over FLAGS.part
ConvertPart ==
    /\ pc = "convert"
    /\ Len(flags.part) > 0
    /\ \E exit \in ExitCodes :
         LET r == ConvertToTex(flags, flags.part[idx], exit, cwd, log, files)
         IN  /\ log' = r.log
             /\ files' = r.files
             /\ cwd' = r.cwd
             /\ idx' = IF r.raised THEN idx ELSE idx + 1
             /\ pc' = IF r.raised THEN "failed"
                      ELSE IF idx = Len(flags.part) THEN "latex1"
                      ELSE "convert"
    /\ UNCHANGED <<flags, flags0, last, text, subs>>

\* the conversion of filename made without looking at FLAGS.part
ConvertFilenameAlways ==
    /\ pc = "convert"
    /\ flags.pandoc
    /\ \E exit \in ExitCodes :
         LET r == ConvertToTex(flags, flags.filename, exit, cwd, log, files)
         IN  /\ log' = r.log
             /\ files' = r.files
             /\ cwd' = r.cwd
             /\ pc' = IF r.raised THEN "failed" ELSE "latex1"
    /\ UNCHANGED <<flags, flags0, idx, last, text, subs>>

\* main, lines 225-227
ConvertFilename ==
    /\ pc = "convert"
    /\ Len(flags.part) = 0
    /\ flags.pandoc
    /\ \E exit \in ExitCodes :
         LET r == ConvertToTex(flags, flags.filename, exit, cwd, log, files)
         IN  /\ log' = r.log
             /\ files' = r.files
             /\ cwd' = r.cwd
             /\ pc' = IF r.raised THEN "failed" ELSE "latex1"
    /\ UNCHANGED <<flags, flags0, idx, last, text, subs>>

\* main, lines 228-229
NoPandoc ==
    /\ pc = "convert"
    /\ Len(flags.part) = 0
    /\ ~flags.pandoc
    /\ pc' = "latex1"
    /\ UNCHANGED <<flags, flags0, idx, log, files, cwd, last, text, subs>>

\* one shell_command of build_pdf: at position from, run cmd, go to to
Step(from, cmd, to) ==
    /\ pc = from
    /\ \E exit \in ExitCodes :
         LET r == ShellCommand(cwd, TRUE, FALSE, FALSE, None, exit)
         IN  /\ log' = Append(log, Exec(cmd, exit))
             /\ cwd' = r.cwd
             /\ pc' = IF r.how = "raised" THEN "failed" ELSE to
    /\ UNCHANGED <<flags, flags0, idx, files, last, text, subs>>

\* the first pass as the only pass of a build without bibliography
Latex1Only ==
    Step("latex1", LatexCommand(flags, flags.filename),
         IF flags.bibtex THEN "bib" ELSE "done")

\* build_pdf, line 199
Latex1 ==
    Step("latex1", LatexCommand(flags, flags.filename),
         IF flags.bibtex THEN "bib" ELSE "latex3")

\* build_pdf, lines 202-205
Bib == Step("bib", BibCommand(flags, flags.filename), "latex2")

\* build_pdf, line 207
Latex2 == Step("latex2", LatexCommand(flags, flags.filename), "latex3")

\* build_pdf, line 209
Latex3 == Step("latex3", LatexCommand(flags, flags.filename), "done")

Next ==
    \/ Simple
    \/ ConvertPart
    \/ ConvertFilename
    \/ NoPandoc
    \/ Latex1
    \/ Bib
    \/ Latex2
    \/ Latex3

Spec == Init /\ [][Next]_vars

SpecArgs == InitArgs /\ [][Next]_vars

----------------------------------------------------------------------------
(* shell_command called on its own, with every combination of its options *)

InitRunner ==
    /\ flags = DefaultFlags
    /\ flags0 = flags
    /\ pc = "runner"
    /\ idx = 1
    /\ log = <<>>
    /\ files = NoFiles
    /\ cwd \in Dirs
    /\ last = NoCall
    /\ text = <<>>
    /\ subs = <<>>

Call ==
    /\ pc = "runner"
    /\ last.n < MaxCalls
    /\ \E throw \in BOOLEAN, output \in BOOLEAN, shell \in BOOLEAN,
          cwdArg \in {None} \cup {Some(d) : d \in Dirs}, exit \in ExitCodes :
         LET r == ShellCommand(cwd, throw, output, shell, cwdArg, exit)
         IN  /\ cwd' = r.cwd
             /\ last' = [n |-> last.n + 1, throw |-> throw,
                         output |-> output, shell |-> shell, cwd |-> cwdArg,
                         exit |-> exit, before |-> cwd, how |-> r.how]
    /\ UNCHANGED <<flags, flags0, pc, idx, log, files, text, subs>>

SpecRunner == InitRunner /\ [][Call]_vars

----------------------------------------------------------------------------
(* process_metadata called on its own, on texts built from segments *)

Header(label, caption) ==
    <<CodeMetadata, "[">> \o label \o <<"]", "{">> \o caption \o <<"}">>

Segments ==
    { Header(<<"f", ":", "1">>, <<"A", " ", "t">>) \o <<"\n">>,
      Header(<<"x">>, <<"(", "b", ")", ".">>) \o <<" ", "\n">>,
      Header(<<"f", "_">>, <<"c">>) \o <<"\n">>,
      Header(<<"f">>, <<"c">>),
      <<BeginShaded, "\n", "c", " ", "\n", EndShaded>>,
      <<BeginShaded>>,
      <<EndShaded>>,
      <<"y">> }

RECURSIVE Flatten(_)
Flatten(ss) == IF ss = <<>> THEN <<>> ELSE Head(ss) \o Flatten(Tail(ss))

Texts == {Flatten(ss) : ss \in SeqsUpTo(Segments, MaxSegs)}

TexPath == <<"m", ".tex">>

InitRewrite ==
    /\ flags = DefaultFlags
    /\ flags0 = flags
    /\ pc = "text"
    /\ idx = 1
    /\ log = <<>>
    /\ text \in Texts
    /\ files = [p \in {TexPath} |-> text]
    /\ cwd = <<"w">>
    /\ last = NoCall
    /\ subs = <<>>

ProcessFile ==
    /\ pc = "text"
    /\ files' = ProcessMetadata(files, TexPath)
    /\ subs' = Sub(files[TexPath], 1).matches
    /\ pc' = "rewritten"
    /\ UNCHANGED <<flags, flags0, idx, log, cwd, last, text>>

SpecRewrite == InitRewrite /\ [][ProcessFile]_vars

----------------------------------------------------------------------------
(* Reading the log *)

Last(q) == q[Len(q)]

IsPandoc(e) == e.kind = "exec" /\ e.cmd[1] = PANDOC

IsLatex(e) == e.kind = "exec" /\ e.cmd[1] = LATEX

IsBib(e) == e.kind = "exec" /\ e.cmd[1] \in {BIBTEX, BIBER}

IsTypeset(e) == IsLatex(e) \/ IsBib(e)

\* the invocations of the conversion steps, in order
Conversions == SelectSeq(log, IsPandoc)

\* the invocations of the typeset step, in order
Typeset == SelectSeq(log, IsTypeset)

Count(q, Test(_)) == Len(SelectSeq(q, Test))

\* the -o argument and the input file of a converter command
OutputOf(e) == e.cmd[Len(e.cmd) - 1]

InputOf(e) == Last(e.cmd)

\* the conversion target of a converter command: its input without ".md"
TargetOf(e) == SubSeq(InputOf(e), 1, Len(InputOf(e)) - 1)

InTypesetStep == pc \in {"latex1", "bib", "latex2", "latex3", "done"}

----------------------------------------------------------------------------
(* C1 *)

\* C1 as stated: a build without bibliography in which no invocation fails
\* invokes the typesetting engine exactly once and no bibliography processor.
C1_AsStated ==
    (pc = "done" /\ ~flags.bibtex) =>
        /\ Count(log, IsLatex) = 1
        /\ Count(log, IsBib) = 0

\* C1, amended: a build without bibliography in which no invocation fails
\* invokes the typesetting engine exactly twice (line 199 and the
\* unconditional line 209), both on <filename>.tex, and no bibliography
\* processor.
C1_TwoPasses ==
    (pc = "done" /\ ~flags.bibtex) =>
        /\ Count(log, IsLatex) = 2
        /\ Count(log, IsBib) = 0
        /\ \A i \in 1..Len(Typeset) :
             Last(Typeset[i].cmd) = flags.filename \o <<".tex">>

C1_Witness ==
    pc = "done" /\ ~flags.bibtex /\ Len(Typeset) > 0

----------------------------------------------------------------------------
(* C2 *)

\* C2: a build with bibliography in which no invocation fails issues, in
\* its typeset step, exactly: engine, bibliography processor, engine,
\* engine; the processor is bibtex when biblatex is set and biber otherwise,
\* it is given the base name, and the engine is given <filename>.tex.
C2_BibliographySequence ==
    (pc = "done" /\ flags.bibtex) =>
        /\ Len(Typeset) = 4
        /\ \A i \in {1, 3, 4} :
             /\ Typeset[i].cmd[1] = LATEX
             /\ Last(Typeset[i].cmd) = flags.filename \o <<".tex">>
        /\ Typeset[2].cmd =
             <<IF flags.biblatex THEN BIBTEX ELSE BIBER, flags.filename>>
        /\ \A i \in 1..4 : Typeset[i].exit = 0

C2_Witness ==
    pc = "done" /\ flags.bibtex /\ flags.biblatex /\ Len(Typeset) = 4

----------------------------------------------------------------------------
(* C3 *)

\* the conversions made so far are those of the first parts, in list order
PartsInOrder ==
    /\ Len(Conversions) <= Len(flags.part)
    /\ \A i \in 1..Len(Conversions) :
         InputOf(Conversions[i]) = flags.part[i] \o <<".md">>
    /\ \A i \in 1..(Len(Conversions) - 1) : Conversions[i].exit = 0

\* the typeset step starts once every part is converted, and not before
TypesetAfterParts ==
    /\ (InTypesetStep \/ Len(Typeset) > 0) =>
          /\ Len(Conversions) = Len(flags.part)
          /\ \A i \in 1..Len(Conversions) : Conversions[i].exit = 0
    /\ (/\ Len(Conversions) = Len(flags.part)
        /\ \A i \in 1..Len(Conversions) : Conversions[i].exit = 0)
       => (InTypesetStep \/ Len(Typeset) > 0)
    /\ pc \in {"bib", "latex2", "latex3", "done"} => Len(Typeset) > 0

TypesetTargetsFilename ==
    \A i \in 1..Len(Typeset) :
       /\ IsLatex(Typeset[i]) =>
            Last(Typeset[i].cmd) = flags.filename \o <<".tex">>
       /\ IsBib(Typeset[i]) => Last(Typeset[i].cmd) = flags.filename

----------------------------------------------------------------------------
(* C4 *)

\* C4: a converter invocation that exits non-zero is the last thing the
\* build does: nothing is invoked or rewritten after it, and the build has
\* failed.
C4_ConverterFailureStops ==
    \A i \in 1..Len(log) :
       (IsPandoc(log[i]) /\ log[i].exit # 0) =>
          /\ i = Len(log)
          /\ pc = "failed"

C4_Witness ==
    /\ pc = "failed"
    /\ Len(log) > 1
    /\ IsPandoc(Last(log))
    /\ Last(log).exit # 0
    /\ flags.highlight
    /\ flags.bibtex

----------------------------------------------------------------------------
(* C5 *)

\* C5 as stated: after a call of shell_command with cwd set, the process's
\* working directory is the one it had before the call, however the call
\* ended.
C5_AsStated ==
    (last.n > 0 /\ last.cwd.set) => cwd = last.before

----------------------------------------------------------------------------
(* C6 *)

\* C6 as stated: the converter's output path is <target>.tex without a
\* part-output directory and <partOutputDir>/<basename(target)>.tex with
\* one, whether or not the directory ends with a separator.
C6_AsStated ==
    \A i \in 1..Len(Conversions) :
       LET target == TargetOf(Conversions[i])
       IN  OutputOf(Conversions[i]) =
              IF Truthy(flags.part_output)
              THEN flags.part_output.val \o <<"/">> \o basename(target)
                   \o <<".tex">>
              ELSE target \o <<".tex">>

----------------------------------------------------------------------------
(* C7 *)

\* The matches of annotation[LABEL]{CAPTION}, whitespace, Shaded block that
\* start at position s of t, stated by what a match is: a non-empty LABEL of
\* label characters between "[" and "]", a non-empty CAPTION of caption
\* characters between "{" and "}", at least one whitespace character, and
\* the block from \begin{Shaded} to the first \end{Shaded} after it.
AnnotationsAt(t, s) ==
    IF At(t, s) # CodeMetadata \/ At(t, s + 1) # "[" THEN {}
    ELSE
    LET LabelEnds ==
            {a \in (s + 2)..Len(t) :
                /\ \A k \in (s + 2)..a : t[k] \in LabelClass
                /\ At(t, a + 1) = "]"
                /\ At(t, a + 2) = "{"}
        CaptionEnds(a) ==
            {b \in (a + 3)..Len(t) :
                /\ \A k \in (a + 3)..b : t[k] \in CaptionClass
                /\ At(t, b + 1) = "}"}
        SpaceEnds(b) ==
            {w \in (b + 2)..Len(t) :
                /\ \A k \in (b + 2)..w : t[k] \in SpaceClass
                /\ At(t, w + 1) = BeginShaded}
        BlockEnds(w) ==
            {e \in (w + 2)..Len(t) :
                /\ t[e] = EndShaded
                /\ \A k \in (w + 2)..(e - 1) : t[k] # EndShaded}
    IN  UNION {UNION {UNION {
            {[end |-> e,
              label |-> SubSeq(t, s + 2, a),
              caption |-> SubSeq(t, a + 3, b),
              shaded |-> SubSeq(t, w + 1, e)] : e \in BlockEnds(w)}
            : w \in SpaceEnds(b)} : b \in CaptionEnds(a)} : a \in LabelEnds}

Spaces(r) == Min({k \in 0..Len(r) : k = Len(r) \/ r[k + 1] \notin SpaceClass})

Drop(r, n) == SubSeq(r, n + 1, Len(r))

LStrip(r) == Drop(r, Spaces(r))

StartsWith(r, q) == Len(r) >= Len(q) /\ SubSeq(r, 1, Len(q)) = q

\* What follows a listing construct at the head of o: the listing begin
\* marker, the block, the label directive, the caption directive and the
\* listing end marker, in this order, with nothing but layout whitespace
\* before and between them.  Empty when o does not start with one.
AfterListing(o, shaded, label, caption) ==
    LET labelDir   == <<"\\label", "{">> \o label \o <<"}">>
        captionDir == <<"\\caption", "{">> \o caption \o <<"}">>
        r1 == LStrip(o)
        r2 == LStrip(Drop(r1, 1))
        r3 == LStrip(Drop(r2, Len(shaded)))
        r4 == LStrip(Drop(r3, Len(labelDir)))
        r5 == LStrip(Drop(r4, Len(captionDir)))
    IN  IF /\ StartsWith(r1, <<"\\begin{listing}">>)
           /\ StartsWith(r2, shaded)
           /\ StartsWith(r3, labelDir)
           /\ StartsWith(r4, captionDir)
           /\ StartsWith(r5, <<"\\end{listing}">>)
        THEN {Drop(r5, 1)}
        ELSE {}

\* o is t from position i on with every match, taken left to right and not
\* overlapping, replaced by a listing construct, and every other token kept.
RECURSIVE Rewritten(_, _, _)
Rewritten(t, i, o) ==
    IF i > Len(t) THEN o = <<>>
    ELSE IF AnnotationsAt(t, i) = {}
    THEN o # <<>> /\ o[1] = t[i] /\ Rewritten(t, i + 1, Tail(o))
    ELSE \E m \in AnnotationsAt(t, i) :
         \E rest \in AfterListing(o, m.shaded, m.label, m.caption) :
         \E k \in 0..Spaces(rest) :
            Rewritten(t, m.end + 1, Drop(rest, k))

\* C7: the content process_metadata writes back is the content it read with
\* each match, left to right and not overlapping, replaced by a listing
\* construct holding the listing begin marker, the matched Shaded block
\* unchanged, the label directive with LABEL, the caption directive with
\* CAPTION and the listing end marker, in this order; the rest is unchanged.
C7_AnnotationRewrite ==
    pc = "rewritten" => Rewritten(text, 1, files[TexPath])

C7_Witness ==
    /\ pc = "rewritten"
    /\ Len(subs) = 2
    /\ subs[1].label # subs[2].label
    /\ subs[2].start = subs[1].end + 1
    /\ files[TexPath] # text

----------------------------------------------------------------------------
(* C8 *)

\* what the --simple shortcut makes of configuration F: G
SimpleDerivation(F, G) ==
    /\ F.simple =>
          /\ G.standalone
          /\ G.output_dir = Some(dirname(F.filename))
          /\ ~F.thesis => G.pretty
          /\ F.thesis => G.pretty = F.pretty
    /\ ~F.simple =>
          /\ G.standalone = F.standalone
          /\ G.output_dir = F.output_dir
          /\ G.pretty = F.pretty

\* C8: the step that starts the pipeline leaves a configuration with, under
\* simple, standalone set, output_dir the directory of filename and pretty
\* set unless thesis (then pretty as given), and without simple these three
\* as given; no later step changes any field of the configuration.
C8_SimpleDerivation ==
    [][IF pc = "main" THEN SimpleDerivation(flags, flags')
       ELSE flags' = flags]_vars

C8_Witness ==
    /\ pc = "done"
    /\ flags0.simple
    /\ flags0.thesis
    /\ ~flags0.pretty
    /\ ~flags0.standalone
    /\ flags0.output_dir # Some(dirname(flags0.filename))
    /\ flags.standalone
    /\ flags.output_dir = Some(<<"d">>)

----------------------------------------------------------------------------
(* C9 *)

If(b, q) == IF b THEN q ELSE <<>>

\* the blocks of converter arguments, in the order C9 lists them
ExpectedArgs(F) ==
    Flatten(<<
        << <<"--verbose">> >>,
        If(F.standalone, << <<"--standalone">> >>),
        If(F.bibtex, << <<"--biblatex">>, <<"--csl">>,
                        <<"/", "ROOT", "/", "third_party", "/", "ieee.csl">> >>),
        If(F.thesis, << <<"-V">>, <<"geometry:margin=20mm">>,
                        <<"-V">>, <<"mainfont:Times New Roman">>,
                        <<"-V">>, <<"papersize:a4">>,
                        <<"-V">>, <<"classoption:12pt">> >>),
        If(F.thesis /\ ~F.template.set,
           << <<"--template">>, <<"/", "ROOT", "/", "thesis-template.tex">> >>),
        If(F.template.set, << <<"--template">>, F.template.val >>),
        If(F.metadata.set, << <<"--metadata-file">>, F.metadata.val >>),
        If(F.highlight,
           << <<"--syntax-definition">>,
              <<"/", "ROOT", "/", "third_party", "/", "typescript.xml">>,
              <<"--highlight=tango">> >>),
        If(F.pretty, << <<"-V">>, <<"geometry:margin=2cm">>,
                        <<"-V">>, <<"mainfont:Roboto">>,
                        <<"-V">>, <<"papersize:a4">> >>)
    >>)

\* C9: every converter command is the converter, then the argument blocks
\* of the configuration in force in the listed order, then the fixed
\* -f/-t/-o arguments and the input file.
C9_ConverterArguments ==
    \A i \in 1..Len(Conversions) :
       LET cmd == Conversions[i].cmd
           n   == Len(cmd)
       IN  /\ n >= 8
           /\ cmd[1] = PANDOC
           /\ SubSeq(cmd, 2, n - 7) = ExpectedArgs(flags)
           /\ cmd[n - 6] = <<"-f">>
           /\ cmd[n - 4] = <<"-t">>
           /\ cmd[n - 2] = <<"-o">>

C9_Witness ==
    /\ Len(Conversions) > 0
    /\ flags.thesis
    /\ flags.template.set
    /\ flags.metadata.set
    /\ flags.highlight
    /\ flags.pretty
    /\ flags.bibtex
    /\ flags.standalone

----------------------------------------------------------------------------
(* C10 *)

\* C10 as stated: in single-document mode the file the conversion step
\* writes and rewrites is the file the typeset step hands to the engine.
C10_AsStated ==
    (Len(flags.part) = 0 /\ flags.pandoc) =>
        \A i \in 1..Len(log), j \in 1..Len(log) :
           (IsLatex(log[j]) /\ i < j) =>
              /\ IsPandoc(log[i]) => OutputOf(log[i]) = Last(log[j].cmd)
              /\ log[i].kind = "rewrite" => log[i].cmd[1] = Last(log[j].cmd)

====
